---- MODULE Spec2Model ----
(***************************************************************************)
(* Model of src/index.ts: executeNearTransferWithMPC, the 5-step MPC       *)
(* signing flow (build, hash, MPC sign, attach, broadcast) with the        *)
(* derived-account bootstrap, run against a small NEAR ledger and an MPC   *)
(* chain-signature service whose answers are drawn from small sets.        *)
(***************************************************************************)
EXTENDS Integers, Sequences, FiniteSets, TLC

\* ---------------------------------------------------------------- bounds
NumRuns == 2          \* invocations of the flow, run one after the other
MaxBlock == 1         \* blocks the ledger may produce while the flows run
MaxRelay == 2         \* relay transactions the MPC service asks the signer to send
NominationExp == 2    \* decimal places of one NEAR in the model's smallest unit

Procs == 1..NumRuns

\* ------------------------------------------------------- program constants
derivationPath == "near-1"                        \* index.ts:90
ControllerId == "alice.testnet"                   \* ACCOUNT_ID of .env
ControllerKeyString == <<"ed25519", "CTL">>      \* PRIVATE_KEY of .env, as its public key
ED25519 == 0                                      \* index.ts:245  keyType 0
SECP256K1 == 1                                    \* index.ts:245  keyType 1
SigLen == 64                                      \* Ed25519 signature length

\* ------------------------------------------------------------- sentinels
NoAmount == [kind |-> "null", value |-> <<>>]
NoKey == [keyType |-> -1, data |-> ""]
NoSnap == [nonce |-> -1, block_hash |-> -1]
NoTx == [signerId |-> "", publicKey |-> NoKey, nonce |-> -1, receiverId |-> "",
         actions |-> <<>>, blockHash |-> -1]
NoHash == <<"nohash">>
NoBytes == [len |-> 0, over |-> NoHash, by |-> ""]
NoResp == [present |-> FALSE, scheme |-> "", hasSignature |-> FALSE, signature |-> NoBytes]
NoResult == [success |-> FALSE, transactionHash |-> NoHash]
NoSigned == [transaction |-> NoTx, signature |-> [keyType |-> -1, data |-> NoBytes]]
NoReq == [to |-> "", amount |-> <<>>]
NoOutcome == [derivedAccountExists |-> FALSE, creations |-> 0, acceptedNonce |-> -1]
NoSignReq == [payloads |-> <<>>, path |-> "", keyType |-> "", signerAccount |-> ""]
NoSimple == [pc |-> "idle", runs |-> 0, request |-> NoReq, amountInYocto |-> NoAmount,
             result |-> NoResult, err |-> "", log |-> <<>>]

\* ----------------------------------------------------------------- inputs
\* request.amount as the characters of the decimal string
Amounts == { <<"0">>, <<"0", ".", "0", "1">>, <<>> }
Receivers == { "receiver.testnet", "" }
Requests == [to : Receivers, amount : Amounts]
\* process.env after dotenv.config: "" stands for an unset variable
Envs == { [ACCOUNT_ID |-> ControllerId, PRIVATE_KEY |-> ControllerKeyString],
          [ACCOUNT_ID |-> "",           PRIVATE_KEY |-> ControllerKeyString],
          [ACCOUNT_ID |-> ControllerId, PRIVATE_KEY |-> <<>>] }

VARIABLES
  env,                 \* process.env
  mpc,                 \* the chain-signature contract v1.signer-prod.testnet
  ledger,              \* the NEAR ledger as seen through the RPC node
  pc,                  \* position of each invocation in executeNearTransferWithMPC
  request,             \* argument of the invocation
  amountInYocto,       \* line 46
  accessKey,           \* line 51 (mutated by ++accessKey.nonce at line 63)
  transaction,         \* line 59
  mpcPublicKey,        \* line 104
  derivedAccountExists,\* line 111
  derivedAccessKey,    \* line 151
  mpcTransaction,      \* line 165
  transactionHash,     \* line 187
  signRequest,         \* the argument of contract.sign, lines 192-197
  relayQueue,          \* walletSelectorTransactions still to send, line 203
  results,             \* the results array of signAndSendTransactions, line 202
  signature,           \* line 192, the response of contract.sign
  signedTransaction,   \* line 242
  result,              \* line 261
  err,                 \* the error the invocation threw
  thrown,              \* what the latest collaborator call threw, "" when it returned
  log,                 \* calls the invocation made on its collaborators, in order
  outcome,             \* what each finished invocation did: bootstrap, accepted nonce
  simple               \* the process that runs simpleNearTransfer

locals == <<request, amountInYocto, accessKey, transaction, mpcPublicKey,
            derivedAccountExists, derivedAccessKey, mpcTransaction, transactionHash,
            signRequest, relayQueue, results, signature, signedTransaction, result>>
\* the state of the invocations of executeNearTransferWithMPC
flow == <<pc, err, thrown, log, outcome, locals>>
vars == <<env, mpc, ledger, simple, flow>>


\* ------------------------------------------------------- pure functions
Set(f, p, v) == [f EXCEPT ![p] = v]

DigitVal(c) == CASE c = "0" -> 0 [] c = "1" -> 1 [] c = "2" -> 2 [] c = "3" -> 3
                 [] c = "4" -> 4 [] c = "5" -> 5 [] c = "6" -> 6 [] c = "7" -> 7
                 [] c = "8" -> 8 [] c = "9" -> 9

\* String.prototype.split('.'): the pieces between the dots
RECURSIVE SplitDot(_)
SplitDot(s) ==
  IF \A i \in 1..Len(s) : s[i] # "." THEN << s >>
  ELSE LET d == CHOOSE i \in 1..Len(s) : s[i] = "." /\ \A j \in 1..(i-1) : s[j] # "."
       IN  << SubSeq(s, 1, d - 1) >> \o SplitDot(SubSeq(s, d + 1, Len(s)))

\* String.prototype.padEnd(n, '0')
RECURSIVE padEnd(_, _)
padEnd(s, n) == IF Len(s) >= n THEN s ELSE padEnd(Append(s, "0"), n)

\* trimLeadingZeroes of near-api-js: strip /^0+/, '' becomes '0'
RECURSIVE StripZeroes(_)
StripZeroes(s) == IF s # <<>> /\ Head(s) = "0" THEN StripZeroes(Tail(s)) ELSE s
trimLeadingZeroes(s) == IF StripZeroes(s) = <<>> THEN << "0" >> ELSE StripZeroes(s)

\* nearUtils.format.parseNearAmount: null for a falsy argument, a throw for a
\* second dot or too many decimals, else the amount in the smallest unit as a
\* decimal string
parseNearAmount(amt) ==
  IF amt = <<>> THEN [kind |-> "null", value |-> <<>>]
  ELSE LET split == SplitDot(amt)
           wholePart == split[1]
           fracPart == IF Len(split) >= 2 THEN split[2] ELSE <<>>
       IN  IF Len(split) > 2 \/ Len(fracPart) > NominationExp
           THEN [kind |-> "throw", value |-> <<>>]
           ELSE [kind |-> "string",
                 value |-> trimLeadingZeroes(wholePart \o padEnd(fracPart, NominationExp))]

\* JavaScript truthiness of a string-or-null: null and '' are falsy
Falsy(v) == v.kind = "null" \/ v.value = <<>>

\* BigInt(decimal string)
RECURSIVE BigInt(_)
BigInt(s) == IF s = <<>> THEN 0 ELSE 10 * BigInt(SubSeq(s, 1, Len(s) - 1)) + DigitVal(s[Len(s)])

\* transactions.transfer(deposit)
transfer(deposit) == [type |-> "Transfer", deposit |-> deposit]

\* nearUtils.PublicKey.fromString: 'type:data', a bare 'data' is Ed25519
PublicKeyFromString(parts) ==
  IF Len(parts) = 1 THEN [keyType |-> ED25519, data |-> parts[1]]
  ELSE [keyType |-> IF parts[1] = "ed25519" THEN ED25519 ELSE SECP256K1, data |-> parts[2]]

\* `${derivationPath}.${accountId}`
DerivedAccountId(path, accountId) == path \o "." \o accountId

\* transactions.createTransaction: a plain record, nothing is validated
createTransaction(signerId, publicKey, receiverId, nonce, actions, blockHash) ==
  [signerId |-> signerId, publicKey |-> publicKey, nonce |-> nonce,
   receiverId |-> receiverId, actions |-> actions, blockHash |-> blockHash]

\* borsh serialization by SCHEMA.Transaction: the fields in schema order
serialize(tx) == << tx.signerId, tx.publicKey.keyType, tx.publicKey.data, tx.nonce,
                    tx.receiverId, tx.blockHash, tx.actions >>

\* crypto.createHash('sha256').update(bytes).digest(): collision-free
sha256(bytes) == << "sha256", bytes >>


\* ------------------------------------------------------------ the ledger
DerivedId == DerivedAccountId(derivationPath, ControllerId)
AccountIds == { ControllerId, DerivedId }
\* a funding amount of BigInt('1'), one yoctoNEAR
OneNearUnparsed == BigInt(<< "1" >>)
\* line 127: BigInt(parseNearAmount('1')!)
OneNear == BigInt(parseNearAmount(<< "1" >>).value)
OtherKey == [keyType |-> ED25519, data |-> "OTHER"]
NoAccount == [exists |-> FALSE, balance |-> 0, key |-> NoKey, nonce |-> 0]

\* view_account through near.account(id).getAccountBalance()
AccountExists(l, id) == id \in AccountIds /\ l.accounts[id].exists

\* view_access_key: the key must be an access key of the account
HasAccessKey(l, id, key) == AccountExists(l, id) /\ l.accounts[id].key = key
ViewAccessKey(l, id) == [nonce |-> l.accounts[id].nonce, block_hash |-> l.block]

\* a transaction signed by signerId was included: its access-key nonce advances
BumpNonce(l, signerId) ==
  [l EXCEPT !.accounts[signerId].nonce = @ + 1]

\* the CreateAccount + AddKey + Transfer transaction of Account.createAccount
CanCreate(l, signerId, newId, amount) ==
  /\ newId \in AccountIds
  /\ ~ l.accounts[newId].exists
  /\ l.accounts[signerId].balance >= amount
ApplyCreate(l, signerId, newId, key, amount) ==
  [BumpNonce(l, signerId) EXCEPT
     !.accounts[signerId].balance = @ - amount,
     !.accounts[newId] = [exists |-> TRUE, balance |-> amount, key |-> key, nonce |-> 0]]

\* Ed25519 verification of a signature over a digest under a public key
Verify(sig, digest, key) ==
  /\ sig.keyType = ED25519
  /\ key.keyType = ED25519
  /\ sig.data.len = SigLen
  /\ sig.data.over = digest
  /\ sig.data.by = key.data

Deposit(tx) == IF tx.actions = <<>> THEN 0 ELSE tx.actions[1].deposit

\* why the ledger rejects a signed transaction, "" when it accepts it
RejectReason(l, st) ==
  LET tx == st.transaction IN
  IF ~ HasAccessKey(l, tx.signerId, tx.publicKey) THEN "InvalidAccessKey"
  ELSE IF ~ Verify(st.signature, sha256(serialize(tx)), tx.publicKey) THEN "InvalidSignature"
  ELSE IF tx.nonce <= l.accounts[tx.signerId].nonce THEN "InvalidNonce"
  ELSE IF tx.receiverId = "" THEN "InvalidReceiverId"
  ELSE IF l.accounts[tx.signerId].balance < Deposit(tx) THEN "NotEnoughBalance"
  ELSE ""
ApplyTransfer(l, tx) ==
  [l EXCEPT !.accounts[tx.signerId].nonce = tx.nonce,
            !.accounts[tx.signerId].balance = @ - Deposit(tx)]

\* ------------------------------------------------------- the MPC service
DerivedKeyStrings == { << "ed25519", "MPC" >>, << "secp256k1", "MPC" >> }

\* what contract.sign may answer at index 0 for one payload
Responses(payload, keyString) ==
  LET good == [len |-> SigLen, over |-> payload, by |-> keyString[2]] IN
  { NoResp,
    [present |-> TRUE, scheme |-> "Ed25519", hasSignature |-> FALSE, signature |-> NoBytes],
    [present |-> TRUE, scheme |-> "Ed25519", hasSignature |-> TRUE, signature |-> good],
    [present |-> TRUE, scheme |-> "Ed25519", hasSignature |-> TRUE,
     signature |-> [good EXCEPT !.len = SigLen - 1]],
    [present |-> TRUE, scheme |-> "Ed25519", hasSignature |-> TRUE,
     signature |-> [good EXCEPT !.over = NoHash]],
    [present |-> TRUE, scheme |-> "", hasSignature |-> TRUE, signature |-> good] }

\* ------------------------------------------------------------------ Init
InitLedgers ==
  { [block |-> 0,
     accounts |-> [id \in AccountIds |->
        IF id = ControllerId
        THEN [exists |-> TRUE, balance |-> 3 * OneNear,
              key |-> PublicKeyFromString(ControllerKeyString), nonce |-> 3]
        ELSE d]] :
    d \in { NoAccount }
          \cup { [exists |-> TRUE, balance |-> OneNear, key |-> k, nonce |-> 7] :
                 k \in { OtherKey } \cup { PublicKeyFromString(ks) : ks \in DerivedKeyStrings } } }

Init ==
  /\ env \in Envs
  /\ mpc \in [derivedKey : DerivedKeyStrings]
  /\ ledger \in InitLedgers
  /\ pc = [p \in Procs |-> "idle"]
  /\ request = [p \in Procs |-> NoReq]
  /\ amountInYocto = [p \in Procs |-> NoAmount]
  /\ accessKey = [p \in Procs |-> NoSnap]
  /\ transaction = [p \in Procs |-> NoTx]
  /\ mpcPublicKey = [p \in Procs |-> NoKey]
  /\ derivedAccountExists = [p \in Procs |-> FALSE]
  /\ derivedAccessKey = [p \in Procs |-> NoSnap]
  /\ mpcTransaction = [p \in Procs |-> NoTx]
  /\ transactionHash = [p \in Procs |-> NoHash]
  /\ signRequest = [p \in Procs |-> NoSignReq]
  /\ relayQueue = [p \in Procs |-> <<>>]
  /\ results = [p \in Procs |-> <<>>]
  /\ signature = [p \in Procs |-> NoResp]
  /\ signedTransaction = [p \in Procs |-> NoSigned]
  /\ result = [p \in Procs |-> NoResult]
  /\ err = [p \in Procs |-> ""]
  /\ thrown = [p \in Procs |-> ""]
  /\ log = [p \in Procs |-> <<>>]
  /\ outcome = [p \in Procs |-> NoOutcome]
  /\ simple = NoSimple


\* --------------------------------------------------------------- helpers
Goto(p, l) == pc' = Set(pc, p, l)
Throw(p, e) == pc' = Set(pc, p, "failed") /\ err' = Set(err, p, e)
Call(p, c) == log' = Set(log, p, Append(log[p], c))
\* the awaited call returned, or threw e
Returned(p) == thrown' = Set(thrown, p, "")
Threw(p, e) == thrown' = Set(thrown, p, e)
\* an error that no try block catches leaves the function as it is
Propagate(p, e) == Throw(p, e) /\ Threw(p, e)

accountId == env.ACCOUNT_ID                                \* line 17
publicKey == PublicKeyFromString(env.PRIVATE_KEY)          \* keyPair.getPublicKey()
derivedAccountId == DerivedAccountId(derivationPath, accountId)   \* line 105
actions(p) == << transfer(BigInt(amountInYocto[p].value)) >>      \* line 57

\* ------------------------------------------- executeNearTransferWithMPC
\* lines 14-29: read the configuration
Enter(p, r) ==
  /\ pc[p] = "idle"
  /\ request' = Set(request, p, r)
  /\ IF accountId = "" \/ env.PRIVATE_KEY = <<>>
     THEN Throw(p, "ConfigMissing")
     ELSE Goto(p, "connect") /\ UNCHANGED err
  /\ UNCHANGED <<env, mpc, simple, outcome, thrown, ledger, log, amountInYocto, accessKey, transaction,
                 mpcPublicKey, derivedAccountExists, derivedAccessKey, mpcTransaction,
                 transactionHash, signRequest, relayQueue, results, signature, signedTransaction, result>>

\* main calls the function with some request (line 278)
Start(p) == \E r \in Requests : Enter(p, r)

\* lines 31-37: connect to the RPC node
Connect(p) ==
  /\ pc[p] = "connect"
  /\ Call(p, << "connect" >>)
  /\ \E ok \in BOOLEAN :
       IF ok THEN Goto(p, "ctlBalance") /\ UNCHANGED err /\ Returned(p)
       ELSE Propagate(p, "RpcError")
  /\ UNCHANGED <<env, mpc, simple, outcome, ledger, locals>>

\* lines 38-41: the controller's balance
GetControllerBalance(p) ==
  /\ pc[p] = "ctlBalance"
  /\ Call(p, << "getAccountBalance", accountId >>)
  /\ \E ok \in BOOLEAN :
       IF ok /\ AccountExists(ledger, accountId)
       THEN Goto(p, "parseAmount") /\ UNCHANGED err /\ Returned(p)
       ELSE Propagate(p, "RpcError")
  /\ UNCHANGED <<env, mpc, simple, outcome, ledger, locals>>

\* lines 46-49: the amount in the smallest unit
ParseAmount(p) ==
  /\ pc[p] = "parseAmount"
  /\ LET v == parseNearAmount(request[p].amount) IN
       IF v.kind = "throw" THEN Throw(p, "CannotParseAmount") /\ UNCHANGED amountInYocto
       ELSE IF Falsy(v) THEN Throw(p, "InvalidAmount") /\ UNCHANGED amountInYocto
       ELSE Goto(p, "ctlAccessKey") /\ amountInYocto' = Set(amountInYocto, p, v)
                                    /\ UNCHANGED err
  /\ UNCHANGED <<env, mpc, simple, outcome, thrown, ledger, log, request, accessKey, transaction,
                 mpcPublicKey, derivedAccountExists, derivedAccessKey, mpcTransaction,
                 transactionHash, signRequest, relayQueue, results, signature, signedTransaction, result>>

\* lines 51-54: the controller's access key
QueryControllerAccessKey(p) ==
  /\ pc[p] = "ctlAccessKey"
  /\ Call(p, << "query", "access_key", accountId >>)
  /\ \E ok \in BOOLEAN :
       IF ok /\ HasAccessKey(ledger, accountId, publicKey)
       THEN /\ Goto(p, "buildTx")
            /\ accessKey' = Set(accessKey, p, ViewAccessKey(ledger, accountId))
            /\ UNCHANGED err
            /\ Returned(p)
       ELSE Propagate(p, "RpcError") /\ UNCHANGED accessKey
  /\ UNCHANGED <<env, mpc, simple, outcome, ledger, request, amountInYocto, transaction,
                 mpcPublicKey, derivedAccountExists, derivedAccessKey, mpcTransaction,
                 transactionHash, signRequest, relayQueue, results, signature, signedTransaction, result>>

\* lines 56-80: the controller transaction; ++accessKey.nonce writes the snapshot
BuildTransaction(p) ==
  /\ pc[p] = "buildTx"
  /\ accessKey' = Set(accessKey, p, [accessKey[p] EXCEPT !.nonce = @ + 1])
  /\ transaction' = Set(transaction, p,
       createTransaction(accountId, publicKey, request[p].to, accessKey'[p].nonce,
                         actions(p), accessKey[p].block_hash))
  /\ Goto(p, "derive")
  /\ UNCHANGED <<env, mpc, simple, outcome, thrown, ledger, err, log, request, amountInYocto,
                 mpcPublicKey, derivedAccountExists, derivedAccessKey, mpcTransaction,
                 transactionHash, signRequest, relayQueue, results, signature, signedTransaction, result>>

\* lines 85-107: the derived public key of (path, controller)
GetDerivedPublicKey(p) ==
  /\ pc[p] = "derive"
  /\ Call(p, << "getDerivedPublicKey", derivationPath, accountId >>)
  /\ \E ok \in BOOLEAN :
       IF ok
       THEN /\ Goto(p, "checkDerived")
            /\ mpcPublicKey' = Set(mpcPublicKey, p, PublicKeyFromString(mpc.derivedKey))
            /\ UNCHANGED err
            /\ Returned(p)
       ELSE Propagate(p, "MpcError") /\ UNCHANGED mpcPublicKey
  /\ UNCHANGED <<env, mpc, simple, outcome, ledger, request, amountInYocto, accessKey, transaction,
                 derivedAccountExists, derivedAccessKey, mpcTransaction,
                 transactionHash, signRequest, relayQueue, results, signature, signedTransaction, result>>

\* lines 113-120: does the derived account exist? any error counts as "no"
CheckDerivedAccount(p) ==
  /\ pc[p] = "checkDerived"
  /\ Call(p, << "getAccountBalance", derivedAccountId >>)
  /\ \E ok \in BOOLEAN :
       IF ok /\ AccountExists(ledger, derivedAccountId)
       THEN /\ Goto(p, "drvAccessKey")
            /\ derivedAccountExists' = Set(derivedAccountExists, p, TRUE)
            /\ Returned(p)
       ELSE /\ Goto(p, "create")
            /\ Threw(p, IF ok THEN "AccountNotFound" ELSE "RpcError")
            /\ UNCHANGED derivedAccountExists
  /\ UNCHANGED <<env, mpc, simple, outcome, ledger, err, request, amountInYocto, accessKey, transaction,
                 mpcPublicKey, derivedAccessKey, mpcTransaction,
                 transactionHash, signRequest, relayQueue, results, signature, signedTransaction, result>>

\* lines 123-133 and 144-147: the controller creates and funds the account
CreateDerivedAccount(p) ==
  /\ pc[p] = "create"
  /\ Call(p, << "createAccount", derivedAccountId >>)
  /\ \E included \in BOOLEAN :
       IF included /\ CanCreate(ledger, accountId, derivedAccountId, OneNear)
       THEN /\ ledger' = ApplyCreate(ledger, accountId, derivedAccountId,
                                     mpcPublicKey[p], OneNear)
            /\ Goto(p, "reread")
            /\ UNCHANGED err
            /\ Returned(p)
       ELSE /\ ledger' = IF included THEN BumpNonce(ledger, accountId) ELSE ledger
            /\ Threw(p, IF included THEN "ActionError" ELSE "RpcError")
            /\ Throw(p, "CannotProceedWithoutDerivedAccount")
  /\ UNCHANGED <<env, mpc, simple, outcome, locals>>

\* a re-read whose failure is swallowed instead of rethrown
RereadSwallowed(p) ==
  /\ pc[p] = "reread"
  /\ Call(p, << "getAccountBalance", derivedAccountId >>)
  /\ \E ok \in BOOLEAN :
       /\ Goto(p, "drvAccessKey")
       /\ Threw(p, IF ok /\ AccountExists(ledger, derivedAccountId) THEN ""
                   ELSE IF ok THEN "AccountNotFound" ELSE "RpcError")
       /\ derivedAccountExists' = Set(derivedAccountExists, p,
                                      ok /\ AccountExists(ledger, derivedAccountId))
  /\ UNCHANGED <<env, mpc, simple, outcome, ledger, err, request, amountInYocto, accessKey, transaction,
                 mpcPublicKey, derivedAccessKey, mpcTransaction,
                 transactionHash, signRequest, relayQueue, results, signature, signedTransaction, result>>

\* lines 135-147: wait, then read the new account once
RereadDerivedAccount(p) ==
  /\ pc[p] = "reread"
  /\ Call(p, << "getAccountBalance", derivedAccountId >>)
  /\ \E ok \in BOOLEAN :
       IF ok /\ AccountExists(ledger, derivedAccountId)
       THEN /\ Goto(p, "drvAccessKey")
            /\ derivedAccountExists' = Set(derivedAccountExists, p, TRUE)
            /\ UNCHANGED err
            /\ Returned(p)
       ELSE /\ Threw(p, IF ok THEN "AccountNotFound" ELSE "RpcError")
            /\ Throw(p, "CannotProceedWithoutDerivedAccount")
            /\ UNCHANGED derivedAccountExists
  /\ UNCHANGED <<env, mpc, simple, outcome, ledger, request, amountInYocto, accessKey, transaction,
                 mpcPublicKey, derivedAccessKey, mpcTransaction,
                 transactionHash, signRequest, relayQueue, results, signature, signedTransaction, result>>

\* a read of whatever access key the derived account has
QueryDerivedAccessKeyAnyKey(p) ==
  /\ pc[p] = "drvAccessKey"
  /\ Call(p, << "query", "access_key", derivedAccountId >>)
  /\ \E ok \in BOOLEAN :
       IF ok /\ AccountExists(ledger, derivedAccountId)
       THEN /\ Goto(p, "buildMpcTx")
            /\ derivedAccessKey' = Set(derivedAccessKey, p,
                                       ViewAccessKey(ledger, derivedAccountId))
            /\ UNCHANGED err
            /\ Returned(p)
       ELSE Propagate(p, "RpcError") /\ UNCHANGED derivedAccessKey
  /\ UNCHANGED <<env, mpc, simple, outcome, ledger, request, amountInYocto, accessKey, transaction,
                 mpcPublicKey, derivedAccountExists, mpcTransaction,
                 transactionHash, signRequest, relayQueue, results, signature, signedTransaction, result>>

\* lines 150-162: the derived account's access key, read after the bootstrap
QueryDerivedAccessKey(p) ==
  /\ pc[p] = "drvAccessKey"
  /\ Call(p, << "query", "access_key", derivedAccountId >>)
  /\ \E ok \in BOOLEAN :
       IF ok /\ HasAccessKey(ledger, derivedAccountId, mpcPublicKey[p])
       THEN /\ Goto(p, "buildMpcTx")
            /\ derivedAccessKey' = Set(derivedAccessKey, p,
                                       ViewAccessKey(ledger, derivedAccountId))
            /\ UNCHANGED err
            /\ Returned(p)
       ELSE Propagate(p, "RpcError") /\ UNCHANGED derivedAccessKey
  /\ UNCHANGED <<env, mpc, simple, outcome, ledger, request, amountInYocto, accessKey, transaction,
                 mpcPublicKey, derivedAccountExists, mpcTransaction,
                 transactionHash, signRequest, relayQueue, results, signature, signedTransaction, result>>

\* a build that reuses the controller snapshot read before the bootstrap
mpcSnapshotStale(p) == accessKey[p]

\* the access-key snapshot the derived-account transaction is built from
mpcSnapshot(p) == derivedAccessKey[p]

\* a build with the nonce written into the code: the one the derived key
\* had when the code was written, plus one
nextNonceFixed(p) == 7 + 1

\* a build that reserves a nonce of its own for every invocation
nextNonceReserved(p) == mpcSnapshot(p).nonce + p

\* a build that passes the snapshot's nonce unchanged
nextNonceSame(p) == mpcSnapshot(p).nonce

\* line 160
nextNonce(p) == mpcSnapshot(p).nonce + 1

\* lines 159-190: the derived-account transaction and its SHA-256 digest
BuildMpcTransaction(p) ==
  /\ pc[p] = "buildMpcTx"
  /\ LET tx == createTransaction(derivedAccountId, mpcPublicKey[p], request[p].to,
                                 nextNonce(p), actions(p), mpcSnapshot(p).block_hash)
     IN  /\ mpcTransaction' = Set(mpcTransaction, p, tx)
         /\ transactionHash' = Set(transactionHash, p, sha256(serialize(tx)))
  /\ Goto(p, "sign")
  /\ UNCHANGED <<env, mpc, simple, outcome, thrown, ledger, err, log, request, amountInYocto, accessKey,
                 transaction, mpcPublicKey, derivedAccountExists, derivedAccessKey,
                 signRequest, relayQueue, results, signature, signedTransaction, result>>


\* the relay transactions the service asks the signer account to send
RelayTxs(n) == [i \in 1..n |-> [receiverId |-> "v1.signer-prod.testnet", index |-> i]]

\* the digest of the controller's transaction of line 59 sent for signing
hashesToSignControllerTx(p) == << sha256(serialize(transaction[p])) >>

\* line 190
hashesToSign(p) == << transactionHash[p] >>

\* lines 190-200: contract.sign is called with one payload
RequestSignature(p) ==
  /\ pc[p] = "sign"
  /\ Call(p, << "sign" >>)
  /\ signRequest' = Set(signRequest, p,
       [payloads |-> hashesToSign(p), path |-> derivationPath, keyType |-> "Eddsa",
        signerAccount |-> accountId])
  /\ \E n \in 1..MaxRelay : relayQueue' = Set(relayQueue, p, RelayTxs(n))
  /\ results' = Set(results, p, <<>>)
  /\ Goto(p, "relay")
  /\ UNCHANGED <<env, mpc, simple, outcome, thrown, ledger, err, request, amountInYocto, accessKey,
                 transaction, mpcPublicKey, derivedAccountExists, derivedAccessKey,
                 mpcTransaction, transactionHash, signature, signedTransaction, result>>

\* a relay that signs with the derived account instead of the controller
relaySignerDerived == derivedAccountId

\* line 206: the relay transactions go through controllerAccount
relaySigner == accountId

\* line 210: the outcome of the relay transaction that was sent
getTransactionLastResult(tx) == [of |-> tx.index]

\* a loop that catches a failed submission and goes on with the next
RelaySendSkipping(p) ==
  /\ pc[p] = "relay"
  /\ relayQueue[p] # <<>>
  /\ Call(p, << "signAndSendTransaction", Head(relayQueue[p]).index >>)
  /\ relayQueue' = Set(relayQueue, p, Tail(relayQueue[p]))
  /\ \E ok \in BOOLEAN :
       IF ok
       THEN /\ ledger' = BumpNonce(ledger, relaySigner)
            /\ results' = Set(results, p,
                 Append(results[p], getTransactionLastResult(Head(relayQueue[p]))))
            /\ Returned(p)
       ELSE /\ Threw(p, "RelayFailed")
            /\ UNCHANGED <<ledger, results>>
  /\ UNCHANGED <<env, mpc, simple, outcome, pc, err, request, amountInYocto, accessKey,
                 transaction, mpcPublicKey, derivedAccountExists, derivedAccessKey,
                 mpcTransaction, transactionHash, signRequest, signature,
                 signedTransaction, result>>

\* lines 203-212: one turn of the loop of signAndSendTransactions
RelaySend(p) ==
  /\ pc[p] = "relay"
  /\ relayQueue[p] # <<>>
  /\ Call(p, << "signAndSendTransaction", Head(relayQueue[p]).index >>)
  /\ \E ok \in BOOLEAN :
       IF ok
       THEN /\ ledger' = BumpNonce(ledger, relaySigner)
            /\ relayQueue' = Set(relayQueue, p, Tail(relayQueue[p]))
            /\ results' = Set(results, p,
                 Append(results[p], getTransactionLastResult(Head(relayQueue[p]))))
            /\ Returned(p)
            /\ UNCHANGED <<pc, err>>
       ELSE /\ Propagate(p, "RelayFailed")
            /\ UNCHANGED <<ledger, relayQueue, results>>
  /\ UNCHANGED <<env, mpc, simple, outcome, request, amountInYocto, accessKey,
                 transaction, mpcPublicKey, derivedAccountExists, derivedAccessKey,
                 mpcTransaction, transactionHash, signRequest, signature,
                 signedTransaction, result>>

\* lines 192 and 214-220: contract.sign returns its list of signatures
ReceiveSignature(p) ==
  /\ pc[p] = "relay"
  /\ relayQueue[p] = <<>>
  /\ \/ /\ \E r \in Responses(signRequest[p].payloads[1], mpc.derivedKey) :
             signature' = Set(signature, p, r)
        /\ Goto(p, "checkSig")
        /\ Returned(p)
        /\ UNCHANGED err
     \/ /\ Propagate(p, "MpcError")
        /\ UNCHANGED signature
  /\ UNCHANGED <<env, mpc, simple, outcome, ledger, log, request, amountInYocto, accessKey,
                 transaction, mpcPublicKey, derivedAccountExists, derivedAccessKey,
                 mpcTransaction, transactionHash, signRequest, relayQueue, results, signedTransaction, result>>

\* a check that lets every answer of the sign call through
AcceptsAnything(r) == TRUE

\* lines 222-233: the only check made on the response
AcceptsResponse(r) == r.present /\ r.hasSignature

\* a check that waits for another answer when the first one is unusable
CheckSignaturePolling(p) ==
  /\ pc[p] = "checkSig"
  /\ IF AcceptsResponse(signature[p])
     THEN Goto(p, "attach")
     ELSE Goto(p, "relay")
  /\ UNCHANGED <<env, mpc, simple, outcome, thrown, ledger, err, log, locals>>

\* lines 222-225
CheckSignature(p) ==
  /\ pc[p] = "checkSig"
  /\ IF AcceptsResponse(signature[p])
     THEN Goto(p, "attach") /\ UNCHANGED err
     ELSE Throw(p, "InvalidMpcSignature")
  /\ UNCHANGED <<env, mpc, simple, outcome, thrown, ledger, log, locals>>

\* a signed transaction assembled around the controller's transaction of line 59
transactionToSendControllerTx(p) == transaction[p]

\* line 243: transaction: mpcTransaction
transactionToSend(p) == mpcTransaction[p]

\* lines 242-250: new SignedTransaction with a Signature of keyType 0
AttachSignature(p) ==
  /\ pc[p] = "attach"
  /\ signedTransaction' = Set(signedTransaction, p,
       [transaction |-> transactionToSend(p),
        signature |-> [keyType |-> ED25519, data |-> signature[p].signature]])
  /\ Goto(p, "broadcast")
  /\ UNCHANGED <<env, mpc, simple, outcome, thrown, ledger, err, log, request, amountInYocto, accessKey,
                 transaction, mpcPublicKey, derivedAccountExists, derivedAccessKey,
                 mpcTransaction, transactionHash, signRequest, relayQueue, results, signature, result>>

\* a rejection that is caught and followed by a new signing round
RejectedRetry(p, e) ==
  /\ Goto(p, "sign")
  /\ Threw(p, e)
  /\ UNCHANGED <<err, ledger, result>>

\* a rejection that is caught and reported as a success
RejectedSwallowed(p, e) ==
  /\ Goto(p, "done")
  /\ Threw(p, e)
  /\ result' = Set(result, p, [success |-> TRUE, transactionHash |-> NoHash])
  /\ UNCHANGED <<err, ledger>>

\* line 255: sendTransaction throws the ledger's rejection and nothing catches it
Rejected(p, e) ==
  /\ Propagate(p, e)
  /\ UNCHANGED <<ledger, result>>

\* lines 255-267: sendTransaction, then the result
Broadcast(p) ==
  /\ pc[p] = "broadcast"
  /\ Call(p, << "sendTransaction" >>)
  /\ LET reason == RejectReason(ledger, signedTransaction[p]) IN
     \E reply \in { "answered", "unreachable", "timeout" } :
       CASE reply = "unreachable" ->
              Propagate(p, "RpcError") /\ UNCHANGED <<ledger, result>>
         [] reply = "answered" /\ reason # "" ->
              Rejected(p, reason)
         [] reply = "timeout" /\ reason # "" ->
              Propagate(p, "TimedOut") /\ UNCHANGED <<ledger, result>>
         [] reply = "timeout" /\ reason = "" ->
              /\ ledger' = ApplyTransfer(ledger, signedTransaction[p].transaction)
              /\ Propagate(p, "TimedOut")
              /\ UNCHANGED result
         [] reply = "answered" /\ reason = "" ->
              /\ ledger' = ApplyTransfer(ledger, signedTransaction[p].transaction)
              /\ result' = Set(result, p,
                   [success |-> TRUE,
                    transactionHash |-> sha256(serialize(signedTransaction[p].transaction))])
              /\ Goto(p, "done")
              /\ Returned(p)
              /\ UNCHANGED err
  /\ UNCHANGED <<env, mpc, simple, outcome, request, amountInYocto, accessKey,
                 transaction, mpcPublicKey, derivedAccountExists, derivedAccessKey,
                 mpcTransaction, transactionHash, signRequest, relayQueue, results, signature, signedTransaction>>

\* the invocation returns or throws to main (lines 270-286), which prints the
\* result or the error and ends the process: nothing but the ledger is kept
Return(p) ==
  /\ pc[p] \in { "done", "failed" }
  /\ Goto(p, "returned")
  /\ outcome' = Set(outcome, p,
       [derivedAccountExists |-> derivedAccountExists[p],
        creations |-> Cardinality({ i \in 1..Len(log[p]) :
                                     log[p][i] = << "createAccount", derivedAccountId >> }),
        acceptedNonce |-> IF pc[p] = "done"
                          THEN signedTransaction[p].transaction.nonce ELSE -1])
  /\ request' = Set(request, p, NoReq)
  /\ amountInYocto' = Set(amountInYocto, p, NoAmount)
  /\ accessKey' = Set(accessKey, p, NoSnap)
  /\ transaction' = Set(transaction, p, NoTx)
  /\ mpcPublicKey' = Set(mpcPublicKey, p, NoKey)
  /\ derivedAccountExists' = Set(derivedAccountExists, p, FALSE)
  /\ derivedAccessKey' = Set(derivedAccessKey, p, NoSnap)
  /\ mpcTransaction' = Set(mpcTransaction, p, NoTx)
  /\ transactionHash' = Set(transactionHash, p, NoHash)
  /\ signRequest' = Set(signRequest, p, NoSignReq)
  /\ relayQueue' = Set(relayQueue, p, <<>>)
  /\ results' = Set(results, p, <<>>)
  /\ signature' = Set(signature, p, NoResp)
  /\ signedTransaction' = Set(signedTransaction, p, NoSigned)
  /\ result' = Set(result, p, NoResult)
  /\ err' = Set(err, p, "")
  /\ thrown' = Set(thrown, p, "")
  /\ log' = Set(log, p, <<>>)
  /\ UNCHANGED <<env, mpc, simple, ledger>>

\* the ledger produces a block
NewBlock ==
  /\ ledger.block < MaxBlock
  /\ ledger' = [ledger EXCEPT !.block = @ + 1]
  /\ UNCHANGED <<env, mpc, simple, outcome, pc, err, thrown, log, locals>>

\* invocations run one after the other (main awaits each call)
MayStart(p) == \A q \in Procs : q < p => pc[q] = "returned"
Invoke(p) == MayStart(p) /\ Start(p)

\* one step of a started invocation
Step(p) ==
  \/ Connect(p)
  \/ GetControllerBalance(p)
  \/ ParseAmount(p)
  \/ QueryControllerAccessKey(p)
  \/ BuildTransaction(p)
  \/ GetDerivedPublicKey(p)
  \/ CheckDerivedAccount(p)
  \/ CreateDerivedAccount(p)
  \/ RereadDerivedAccount(p)
  \/ QueryDerivedAccessKey(p)
  \/ BuildMpcTransaction(p)
  \/ RequestSignature(p)
  \/ RelaySend(p)
  \/ ReceiveSignature(p)
  \/ CheckSignature(p)
  \/ AttachSignature(p)
  \/ Broadcast(p)
  \/ Return(p)

Next ==
  \/ NewBlock
  \/ \E p \in Procs : Invoke(p) \/ Step(p)

Spec == Init /\ [][Next]_vars

\* every await of a started invocation is answered or fails in the end, and
\* the code between two awaits runs to the next one
Fairness == \A p \in Procs : WF_vars(Step(p))
\* the invocations alone, the block height held fixed: no step of the flow
\* waits for a block
NextFlow == \E p \in Procs : Invoke(p) \/ Step(p)
FlowSpec == Init /\ [][NextFlow]_vars
LiveSpec == Init /\ [][NextFlow]_vars /\ Fairness

\* the function holds no lock and keeps no state between calls: a second
\* process may call it while an invocation is in flight. The first two
\* invocations overlap, the later ones follow when all before have returned.
MayStartConcurrently(p) ==
  /\ \A q \in Procs : q < p => pc[q] # "idle"
  /\ p > 2 => \A q \in Procs : q < p => pc[q] = "returned"
\* the concurrent callers ask for transfers the ledger can carry out
TransferRequests ==
  { r \in Requests : r.to # "" /\ BigInt(parseNearAmount(r.amount).value) > 0 }
InvokeConcurrently(p) == MayStartConcurrently(p) /\ \E r \in TransferRequests : Enter(p, r)

\* the ledger's block height is held fixed here: block hashes play no part in
\* how invocations race for a nonce, and Spec covers block production
NextConc == \E p \in Procs : InvokeConcurrently(p) \/ Step(p)

SpecConc == Init /\ [][NextConc]_vars


\* ----------------------------------------------------- simpleNearTransfer
\* the function goes to the next await, or throws
SimpleGoto(l) == [simple EXCEPT !.pc = l]
SimpleThrow(e) == [simple EXCEPT !.pc = "failed", !.err = e]
SimpleCall(sm, c) == [sm EXCEPT !.log = Append(@, c)]

\* a configuration check that looks at ACCOUNT_ID only
SimpleStartKeyUnchecked ==
  /\ simple.pc = "idle"
  /\ simple.runs < NumRuns
  /\ \E r \in Requests :
       simple' = [(IF accountId = ""
                   THEN SimpleThrow("ConfigMissing")
                   ELSE SimpleGoto("connect")) EXCEPT !.request = r]
  /\ UNCHANGED <<env, mpc, ledger, flow>>

\* lines 307-324: main calls the function, which reads the configuration
SimpleStart ==
  /\ simple.pc = "idle"
  /\ simple.runs < NumRuns
  /\ \E r \in Requests :
       simple' = [(IF accountId = "" \/ env.PRIVATE_KEY = <<>>
                   THEN SimpleThrow("ConfigMissing")
                   ELSE SimpleGoto("connect")) EXCEPT !.request = r]
  /\ UNCHANGED <<env, mpc, ledger, flow>>

\* lines 329-336: connect to the RPC node
SimpleConnect ==
  /\ simple.pc = "connect"
  /\ \E ok \in BOOLEAN :
       simple' = SimpleCall(IF ok THEN SimpleGoto("balance") ELSE SimpleThrow("RpcError"),
                            << "connect" >>)
  /\ UNCHANGED <<env, mpc, ledger, flow>>

\* lines 340-343: the balance before the transfer
SimpleGetBalance ==
  /\ simple.pc = "balance"
  /\ \E ok \in BOOLEAN :
       simple' = SimpleCall(IF ok /\ AccountExists(ledger, accountId)
                            THEN SimpleGoto("parseAmount") ELSE SimpleThrow("RpcError"),
                            << "getAccountBalance", accountId >>)
  /\ UNCHANGED <<env, mpc, ledger, flow>>

\* a validation that lets every parsed amount through
SimpleAmountNeverRejected(v) == FALSE

\* line 354: if (!amountInYocto)
SimpleAmountRejected(v) == Falsy(v)

\* lines 353-356: the amount in yoctoNEAR
SimpleParseAmount ==
  /\ simple.pc = "parseAmount"
  /\ LET v == parseNearAmount(simple.request.amount) IN
       simple' = IF v.kind = "throw" THEN SimpleThrow("CannotParseAmount")
                 ELSE IF SimpleAmountRejected(v) THEN SimpleThrow("InvalidAmount")
                 ELSE [SimpleGoto("sendMoney") EXCEPT !.amountInYocto = v]
  /\ UNCHANGED <<env, mpc, ledger, flow>>

\* account.sendMoney builds a transfer with the next nonce of the account's
\* key and signs it with the key pair of the key store
SendMoneyTransaction(l, receiverId, amount) ==
  LET tx == createTransaction(accountId, publicKey, receiverId,
                              l.accounts[accountId].nonce + 1, << transfer(amount) >>, l.block)
  IN  [transaction |-> tx,
       signature |-> [keyType |-> publicKey.keyType,
                      data |-> [len |-> SigLen, over |-> sha256(serialize(tx)),
                                by |-> publicKey.data]]]

\* lines 361-364: the transfer
SimpleSendMoney ==
  /\ simple.pc = "sendMoney"
  /\ LET amount == BigInt(simple.amountInYocto.value)
         st == SendMoneyTransaction(ledger, simple.request.to, amount)
         reason == RejectReason(ledger, st)
         called == SimpleCall(simple, << "sendMoney", accountId, simple.request.to, amount >>)
     IN
     \E reply \in { "answered", "unreachable", "timeout" } :
       CASE reply = "unreachable" ->
              /\ simple' = [called EXCEPT !.pc = "failed", !.err = "RpcError"]
              /\ UNCHANGED ledger
         [] reply = "answered" /\ reason # "" ->
              /\ simple' = [called EXCEPT !.pc = "failed", !.err = reason]
              /\ UNCHANGED ledger
         [] reply = "timeout" ->
              /\ simple' = [called EXCEPT !.pc = "failed", !.err = "TimedOut"]
              /\ ledger' = IF reason = "" THEN ApplyTransfer(ledger, st.transaction) ELSE ledger
         [] reply = "answered" /\ reason = "" ->
              /\ simple' = [called EXCEPT
                             !.pc = "balanceAfter",
                             !.result = [success |-> FALSE,
                                         transactionHash |-> sha256(serialize(st.transaction))]]
              /\ ledger' = ApplyTransfer(ledger, st.transaction)
  /\ UNCHANGED <<env, mpc, flow>>

\* lines 371-386: the balance after the transfer, then the result
SimpleGetBalanceAfter ==
  /\ simple.pc = "balanceAfter"
  /\ \E ok \in BOOLEAN :
       simple' = SimpleCall(IF ok THEN [SimpleGoto("done") EXCEPT !.result.success = TRUE]
                            ELSE [SimpleThrow("RpcError") EXCEPT !.result = NoResult],
                            << "getAccountBalance", accountId >>)
  /\ UNCHANGED <<env, mpc, ledger, flow>>

\* lines 390-409: main prints the result or the error and the process ends
SimpleReturn ==
  /\ simple.pc \in { "done", "failed" }
  /\ simple' = [NoSimple EXCEPT !.runs = simple.runs + 1]
  /\ UNCHANGED <<env, mpc, ledger, flow>>

NextSimple ==
  \/ SimpleStart
  \/ SimpleConnect
  \/ SimpleGetBalance
  \/ SimpleParseAmount
  \/ SimpleSendMoney
  \/ SimpleGetBalanceAfter
  \/ SimpleReturn

SimpleSpec == Init /\ [][NextSimple]_vars

\* the two examples are two programs run on the same configuration and
\* ledger, one after the other: simpleNearTransfer is run when no invocation
\* of executeNearTransferWithMPC is under way, and none is started after it
FlowAtRest == \A p \in Procs : pc[p] \in { "idle", "returned" }
NextEither ==
  \/ simple = NoSimple /\ NextFlow
  \/ FlowAtRest /\ NextSimple

EitherSpec == Init /\ [][NextEither]_vars


\* ================================================================ claims
ExistenceRead == << "getAccountBalance", DerivedId >>
CreateCall == << "createAccount", DerivedId >>
SnapshotRead == << "query", "access_key", DerivedId >>
SignCall == << "sign" >>
SendCall == << "sendTransaction" >>
BootstrapError == "CannotProceedWithoutDerivedAccount"

Has(p, e) == \E i \in 1..Len(log[p]) : log[p][i] = e
Count(p, e) == Cardinality({ i \in 1..Len(log[p]) : log[p][i] = e })
Running(p) == pc[p] \notin { "idle", "returned" }

\* C1: whenever an invocation has made the MPC sign request, the derived
\* account's access key was read exactly once, after every call of the
\* bootstrap (existence reads, createAccount) and before the sign call, and the
\* transaction whose digest was sent for signing carries that snapshot's nonce
\* plus one and its block hash.
C1_SnapshotAfterBootstrap ==
  \A p \in Procs :
    (Running(p) /\ Has(p, SignCall)) =>
      /\ \E q \in 1..Len(log[p]) :
           /\ log[p][q] = SnapshotRead
           /\ \A i \in 1..Len(log[p]) :
                /\ log[p][i] \in { ExistenceRead, CreateCall } => i < q
                /\ log[p][i] = SignCall => q < i
                /\ log[p][i] = SnapshotRead => i = q
      /\ mpcTransaction[p].nonce = derivedAccessKey[p].nonce + 1
      /\ mpcTransaction[p].blockHash = derivedAccessKey[p].block_hash
      /\ signRequest[p].payloads = << sha256(serialize(mpcTransaction[p])) >>

\* the sign request was made after a bootstrap that created the account
C1_Witness ==
  \E p \in Procs : pc[p] = "relay" /\ Has(p, CreateCall) /\ Has(p, SignCall)

\* C2: the step that builds the controller transaction gives it the nonce of
\* the access-key snapshot as it was fetched plus one, and the step that builds
\* the derived-account transaction gives it the nonce of the derived snapshot
\* plus one.
C2_NonceIsSnapshotPlusOne ==
  [][ \A p \in Procs :
        /\ (pc[p] = "buildTx" /\ pc'[p] = "derive") =>
             transaction'[p].nonce = accessKey[p].nonce + 1
        /\ (pc[p] = "buildMpcTx" /\ pc'[p] = "sign") =>
             mpcTransaction'[p].nonce = derivedAccessKey[p].nonce + 1 ]_vars

\* both transactions of one invocation have been built
C2_Witness ==
  \E p \in Procs : pc[p] = "sign" /\ transaction[p] # NoTx /\ mpcTransaction[p] # NoTx

\* C3 (as claimed, for an Ed25519 derived key and a well-formed response of 64
\* bytes tagged Ed25519): a transaction about to be passed to sendTransaction
\* carries a signature that verifies against the derived public key and the
\* digest.
C3_OnlyVerifiedBroadcast ==
  \A p \in Procs :
    (/\ pc[p] = "broadcast"
     /\ mpcPublicKey[p].keyType = ED25519
     /\ signature[p].scheme = "Ed25519"
     /\ signature[p].signature.len = SigLen) =>
      Verify(signedTransaction[p].signature, transactionHash[p], mpcPublicKey[p])

\* createAccount calls of an invocation, running or finished
Creations(p) == IF pc[p] = "returned" THEN outcome[p].creations ELSE Count(p, CreateCall)

\* C4 (as claimed, in its weakest reading: the earlier run's bootstrap ended
\* with the account present): no run makes more than one createAccount call,
\* and of two runs in sequence the second makes none, so both make at most one.
C4_BootstrapIdempotent ==
  /\ \A p \in Procs : Creations(p) <= 1
  /\ \A p, q \in Procs :
       (p < q /\ outcome[p].derivedAccountExists) =>
         /\ Creations(q) = 0
         /\ Creations(p) + Creations(q) <= 1

\* C5 (as claimed): an existence check made while the derived account exists on
\* the ledger never takes the creation path.
C5_ExistingAccountNoCreate ==
  [][ \A p \in Procs :
        (pc[p] = "checkDerived" /\ AccountExists(ledger, DerivedId)) =>
          pc'[p] # "create" ]_vars

\* C6: once createAccount was attempted and the account was not seen afterwards
\* (the creation failed, or the re-read failed), the invocation has failed with
\* the bootstrap error after one creation attempt and at most one re-read, and
\* has made no derived access-key query, no sign request and no broadcast; an
\* invocation that did query the derived access key had seen the account.
C6_BootstrapFailureStops ==
  \A p \in Procs :
    /\ (Running(p) /\ Has(p, CreateCall) /\ ~ derivedAccountExists[p]
          /\ pc[p] # "reread") =>
         /\ pc[p] = "failed"
         /\ err[p] = BootstrapError
    /\ err[p] = BootstrapError =>
         /\ Count(p, CreateCall) = 1
         /\ Count(p, ExistenceRead) <= 2
         /\ ~ Has(p, SnapshotRead)
         /\ ~ Has(p, SignCall)
         /\ ~ Has(p, SendCall)
    /\ (Running(p) /\ Has(p, SnapshotRead)) => derivedAccountExists[p]

\* the re-read after a successful creation failed
C6_Witness ==
  \E p \in Procs :
    /\ pc[p] = "failed"
    /\ err[p] = BootstrapError
    /\ Count(p, ExistenceRead) = 2
    /\ AccountExists(ledger, DerivedId)

\* C7 (as claimed): an invocation whose amount is "0" makes no network call.
C7_ZeroAmountNoNetwork ==
  \A p \in Procs :
    (Running(p) /\ request[p].amount = << "0" >>) => log[p] = <<>>

\* C8 (as claimed): for a request with an empty receiver no transaction is
\* built, signed or broadcast.
C8_EmptyReceiverRejected ==
  \A p \in Procs :
    (Running(p) /\ request[p].to = "") =>
      /\ transaction[p] = NoTx
      /\ mpcTransaction[p] = NoTx
      /\ signedTransaction[p] = NoSigned
      /\ ~ Has(p, SendCall)

\* C9 (as claimed): a response whose signature is not 64 bytes long or whose
\* scheme tag is not Ed25519 is neither attached nor broadcast.
C9_MalformedRejected ==
  \A p \in Procs :
    (signature[p].present
       /\ (signature[p].signature.len # SigLen \/ signature[p].scheme # "Ed25519")) =>
      /\ signedTransaction[p] = NoSigned
      /\ ~ Has(p, SendCall)

\* C10 (as claimed): every SignedTransaction has a signature whose key type is
\* the key type of its transaction's public key.
C10_KeyTypesAgree ==
  \A p \in Procs :
    signedTransaction[p] # NoSigned =>
      signedTransaction[p].signature.keyType
        = signedTransaction[p].transaction.publicKey.keyType

\* ---- C11 ----

\* the existence read failed and the derived account is really absent: the
\* one failure the flow is meant to recover from
GenuineAbsence(p) == pc[p] = "create" /\ ~AccountExists(ledger, DerivedId)

\* C11 (as claimed): whatever a collaborator call threw has ended the
\* invocation with an error, the existence read of a really absent derived
\* account excepted; no other failure is swallowed, and a failed existence
\* read of an existing account does not lead on to the creation.
C11_EveryFailurePropagated ==
  \A p \in Procs :
    thrown[p] # "" /\ ~GenuineAbsence(p) => pc[p] = "failed" /\ err[p] # ""

\* ---- C12 ----

\* the latest call of the invocation is the sign request (with its relay
\* transactions) or the submission, and it failed
SignOrSendFailed(p) ==
  /\ Has(p, SignCall)
  /\ thrown[p] # ""

\* C12: within one invocation contract.sign is called at most once and
\* sendTransaction at most once; once the sign request or the submission has
\* failed, been rejected or timed out, the invocation has ended with an error
\* (so it neither signs nor submits again).
C12_SignAndSubmitOnce ==
  \A p \in Procs :
    /\ Count(p, SignCall) <= 1
    /\ Count(p, SendCall) <= 1
    /\ SignOrSendFailed(p) => pc[p] = "failed" /\ err[p] # ""

\* an invocation whose signed transaction the ledger rejected has ended with
\* that error after one sign request and one submission
C12_Witness ==
  \E p \in Procs :
    /\ pc[p] = "failed"
    /\ err[p] = "InvalidSignature"
    /\ Count(p, SignCall) = 1
    /\ Count(p, SendCall) = 1

\* ---- C13 ----

\* C13: every sign request of an invocation carries exactly one payload, the
\* digest of the serialized derived-account transaction, together with the
\* derivation path and the controller account as relay identity; the
\* response kept is the service's answer for that payload, and the signature
\* attached to the transaction is the one of that response.
C13_OnePayloadOneSignature ==
  \A p \in Procs :
    Has(p, SignCall) /\ Running(p) =>
      /\ Len(signRequest[p].payloads) = 1
      /\ signRequest[p].payloads[1] = sha256(serialize(mpcTransaction[p]))
      /\ signRequest[p].path = derivationPath
      /\ signRequest[p].signerAccount = ControllerId
      /\ signature[p] \in Responses(sha256(serialize(mpcTransaction[p])), mpc.derivedKey)
      /\ signedTransaction[p] # NoSigned =>
           signedTransaction[p].signature.data = signature[p].signature

\* a signature returned for the single payload has been attached
C13_Witness ==
  \E p \in Procs :
    /\ pc[p] = "broadcast"
    /\ signature[p].present
    /\ signature[p].signature.over = sha256(serialize(mpcTransaction[p]))
    /\ signedTransaction[p].signature.data = signature[p].signature

\* ---- C14 ----

\* the nonce of the transaction of invocation p that the ledger accepted,
\* -1 when there is none
AcceptedNonce(p) ==
  IF pc[p] = "returned" THEN outcome[p].acceptedNonce
  ELSE IF pc[p] = "done" THEN signedTransaction[p].transaction.nonce
  ELSE -1

\* C14: of two invocations in sequence for the same derived account, once the
\* ledger has accepted the transaction of the earlier one, the transaction the
\* later one builds carries a strictly greater nonce, and so does the
\* transaction of the later one that the ledger accepts.
C14_NoncesIncrease ==
  \A p, q \in Procs :
    p < q /\ AcceptedNonce(p) >= 0 =>
      /\ mpcTransaction[q] # NoTx => mpcTransaction[q].nonce > AcceptedNonce(p)
      /\ AcceptedNonce(q) >= 0 => AcceptedNonce(q) > AcceptedNonce(p)

\* two invocations in sequence both ended in an accepted broadcast
C14_Witness ==
  \E p, q \in Procs :
    /\ p < q
    /\ AcceptedNonce(p) >= 0
    /\ pc[q] = "done"
    /\ AcceptedNonce(q) = AcceptedNonce(p) + 1

\* ---- C16 ----

\* some invocation is at its sendTransaction call
AtBroadcast == \E p \in Procs : pc[p] = "broadcast"

\* C16 (as claimed): no step before the broadcast is visible on the ledger:
\* the accounts of the ledger change only in the step that submits the
\* signed transaction.
C16_NoLedgerEffectBeforeBroadcast ==
  [][ledger'.accounts # ledger.accounts => AtBroadcast]_vars

\* C16 (amended): before the broadcast no transaction of the derived account
\* has been submitted: an existing derived account changes (nonce, balance,
\* key) only in the step that submits the signed transaction, whereas the
\* controller's createAccount and relay transactions precede it.
C16_NoDerivedTransactionBeforeBroadcast ==
  [][(AccountExists(ledger, DerivedId) /\
      ledger'.accounts[DerivedId] # ledger.accounts[DerivedId]) => AtBroadcast]_vars

\* an invocation stopped while waiting for the MPC signature, its relay
\* transaction already on the ledger and nothing broadcast
C16_Witness ==
  \E p \in Procs :
    /\ pc[p] = "checkSig"
    /\ Has(p, << "signAndSendTransaction", 1 >>)
    /\ ~Has(p, SendCall)
    /\ AccountExists(ledger, DerivedId)

\* ---- C18 ----

\* position of the first occurrence of call e in the log of p, 0 if none
First(p, e) ==
  IF Has(p, e) THEN CHOOSE i \in 1..Len(log[p]) :
                      log[p][i] = e /\ \A j \in 1..(i - 1) : log[p][j] # e
  ELSE 0

\* C18: the five steps happen in the documented order: the sign request is
\* made for the digest of a transaction already built; a signed transaction
\* exists only with a signature the sign request returned, over the built
\* transaction; sendTransaction is called only after the sign call, with that
\* signed transaction; and success is reported only after sendTransaction
\* returned.
C18_FiveStepsInOrder ==
  \A p \in Procs :
    /\ Has(p, SignCall) /\ Running(p) =>
         /\ mpcTransaction[p] # NoTx
         /\ transactionHash[p] = sha256(serialize(mpcTransaction[p]))
    /\ signedTransaction[p] # NoSigned =>
         /\ Has(p, SignCall)
         /\ signature[p].present /\ signature[p].hasSignature
         /\ signedTransaction[p].transaction = mpcTransaction[p]
    /\ Has(p, SendCall) =>
         /\ First(p, SignCall) < First(p, SendCall)
         /\ signedTransaction[p] # NoSigned
    /\ result[p].success =>
         /\ pc[p] = "done"
         /\ Has(p, SendCall)
         /\ thrown[p] = ""

\* an invocation reported success after sign request and broadcast
C18_Witness ==
  \E p \in Procs :
    /\ result[p].success
    /\ First(p, SignCall) > 0
    /\ First(p, SignCall) < First(p, SendCall)

\* ---- C15 ----

\* invocation p is about to submit a transaction that is in order except for
\* its nonce, which the derived account's access key has already reached
StaleAtBroadcast(p) ==
  /\ pc[p] = "broadcast"
  /\ RejectReason(ledger, signedTransaction[p]) = "InvalidNonce"

\* C15 (as claimed): the submission of a transaction built from a stale
\* access-key snapshot ends the invocation with the ledger's nonce rejection.
C15_StaleNonceRejected ==
  [][\A p \in Procs :
       StaleAtBroadcast(p) /\ pc'[p] # "broadcast" =>
         pc'[p] = "failed" /\ err'[p] = "InvalidNonce"]_vars

\* C15 (amended): the submission of a transaction built from a stale
\* access-key snapshot ends the invocation with an error and without success:
\* the ledger's nonce rejection when the submission is answered, the
\* transport error or the timeout of the call otherwise; the ledger stays as
\* it is.
C15_StaleNonceNeverSucceeds ==
  [][\A p \in Procs :
       StaleAtBroadcast(p) /\ pc'[p] # "broadcast" =>
         /\ pc'[p] = "failed"
         /\ ~result'[p].success
         /\ err'[p] \in { "InvalidNonce", "RpcError", "TimedOut" }
         /\ thrown'[p] = err'[p]
         /\ ledger' = ledger]_vars

\* of two overlapping invocations one was accepted and the other was rejected
\* for its nonce
C15_Witness ==
  \E p, q \in Procs :
    /\ pc[p] = "failed" /\ err[p] = "InvalidNonce" /\ Has(p, SendCall)
    /\ AcceptedNonce(q) >= 0
    /\ ~result[p].success

\* ---- C17 ----

\* invocation p has built its derived-account transaction
Built(p) == mpcTransaction[p] # NoTx

\* C17: nothing coordinates overlapping invocations: two of them that read
\* the same nonce of the derived access key build transactions with the same
\* nonce, and of two transactions with the same nonce the ledger accepts at
\* most one.
C17_SameNonceOneAccepted ==
  \A p, q \in Procs :
    p # q =>
      /\ (Built(p) /\ Built(q) /\ derivedAccessKey[p].nonce = derivedAccessKey[q].nonce) =>
           mpcTransaction[p].nonce = mpcTransaction[q].nonce
      /\ (AcceptedNonce(p) >= 0 /\ AcceptedNonce(q) >= 0) =>
           AcceptedNonce(p) # AcceptedNonce(q)

\* two overlapping invocations built transactions with the same nonce; the
\* ledger accepted one and rejected the other
C17_Witness ==
  \E p, q \in Procs :
    /\ p # q /\ Built(p) /\ Built(q)
    /\ derivedAccessKey[p] = derivedAccessKey[q]
    /\ mpcTransaction[p].nonce = mpcTransaction[q].nonce
    /\ pc[p] = "done"
    /\ pc[q] = "failed" /\ err[q] = "InvalidNonce"

\* ---- C19 ----

\* C19: every invocation that was started eventually ends, with the success
\* result or with an error, provided every awaited call eventually returns
\* or throws.
C19_EveryInvocationTerminates ==
  \A p \in Procs : (pc[p] # "idle") ~> (pc[p] \in { "done", "failed", "returned" })

\* an invocation went through the bootstrap with its fixed wait and the
\* broadcast, and ended
C19_Witness ==
  \E p \in Procs :
    /\ pc[p] \in { "done", "failed" }
    /\ Has(p, CreateCall)
    /\ Has(p, SendCall)

\* ---- C20 ----

\* the positions of the sendMoney calls in the log of simpleNearTransfer
SimpleSends == { i \in 1..Len(simple.log) : simple.log[i][1] = "sendMoney" }
ValidationErrors == { "ConfigMissing", "CannotParseAmount", "InvalidAmount" }

\* C20: simpleNearTransfer calls sendMoney at most once, from the configured
\* account to request.to for the parsed amount, and only with both
\* environment variables set and an amount that parsed to a non-empty
\* string; it reports success, with the transaction hash, only after that
\* one call returned; when the validation fails there is no sendMoney call.
C20_SimpleTransferOnce ==
  /\ Cardinality(SimpleSends) <= 1
  /\ \A i \in SimpleSends :
       /\ env.ACCOUNT_ID # "" /\ env.PRIVATE_KEY # <<>>
       /\ parseNearAmount(simple.request.amount).kind = "string"
       /\ parseNearAmount(simple.request.amount).value # <<>>
       /\ simple.log[i] = << "sendMoney", env.ACCOUNT_ID, simple.request.to,
                             BigInt(parseNearAmount(simple.request.amount).value) >>
  /\ simple.result.success =>
       /\ simple.pc = "done"
       /\ Cardinality(SimpleSends) = 1
       /\ simple.result.transactionHash # NoHash
  /\ simple.err \in ValidationErrors => SimpleSends = {}

\* the transfer was made and success reported
C20_Witness ==
  /\ simple.pc = "done"
  /\ simple.result.success
  /\ Cardinality(SimpleSends) = 1
  /\ ledger.accounts[ControllerId].nonce > 3

\* ---- C21 ----

\* C21: the transaction handed to sendTransaction is the derived-account
\* transaction whose serialization was hashed into the one digest sent for
\* signing: sender the derived account, receiver and actions those of the
\* request, nonce and block hash those of the derived access-key snapshot;
\* the controller's transaction built first is neither the one whose digest
\* is sent for signing nor the one broadcast.
C21_BroadcastIsTheHashedTransaction ==
  \A p \in Procs :
    /\ Has(p, SignCall) /\ Running(p) =>
         /\ signRequest[p].payloads = << sha256(serialize(mpcTransaction[p])) >>
         /\ signRequest[p].payloads[1] # sha256(serialize(transaction[p]))
    /\ signedTransaction[p] # NoSigned =>
         LET tx == signedTransaction[p].transaction IN
         /\ tx = mpcTransaction[p]
         /\ signRequest[p].payloads = << sha256(serialize(tx)) >>
         /\ tx.signerId = DerivedId
         /\ tx.receiverId = request[p].to
         /\ tx.actions = actions(p)
         /\ tx.nonce = derivedAccessKey[p].nonce + 1
         /\ tx.blockHash = derivedAccessKey[p].block_hash
         /\ tx # transaction[p]

\* a signed transaction was broadcast while the controller's transaction
\* of the same invocation lay unused
C21_Witness ==
  \E p \in Procs :
    /\ Has(p, SendCall)
    /\ pc[p] = "done"
    /\ transaction[p] # NoTx
    /\ transaction[p].signerId = ControllerId
    /\ signedTransaction[p].transaction.signerId = DerivedId

\* ---- C22 ----

\* the key derivation call for the path and the controller of the sign request
DerivationCall(p) ==
  << "getDerivedPublicKey", signRequest[p].path, signRequest[p].signerAccount >>

\* C22: the public key in the signed transaction is the key the MPC service
\* derives, asked for with the very path and controller account that the sign
\* request carries; an invocation whose derived account has no access key
\* equal to that key has failed at the access-key read, its last call, and
\* has requested no signature.
C22_DerivedKeyThroughout ==
  \A p \in Procs :
    /\ signedTransaction[p] # NoSigned =>
         /\ signedTransaction[p].transaction.publicKey = PublicKeyFromString(mpc.derivedKey)
         /\ signedTransaction[p].transaction.publicKey = mpcPublicKey[p]
         /\ Has(p, DerivationCall(p))
    /\ (Has(p, SnapshotRead) /\ ~HasAccessKey(ledger, DerivedId, mpcPublicKey[p])) =>
         /\ pc[p] = "failed"
         /\ err[p] # ""
         /\ log[p][Len(log[p])] = SnapshotRead
         /\ ~Has(p, SignCall)

\* the derived account exists under another key and the invocation ended at
\* the access-key read
C22_Witness ==
  \E p \in Procs :
    /\ pc[p] = "failed"
    /\ Has(p, SnapshotRead)
    /\ log[p][Len(log[p])] = SnapshotRead
    /\ AccountExists(ledger, DerivedId)
    /\ mpcPublicKey[p] # NoKey
    /\ ledger.accounts[DerivedId].key # mpcPublicKey[p]

\* ---- C23 ----

\* C23: the step in which createAccount succeeds is a transaction of the
\* controller (its nonce advances, its balance pays the funding) that brings
\* into being the account near-1.alice.testnet, the derivation path, a dot and
\* the controller's name, with the MPC-derived public key as its access key
\* and a balance of exactly one NEAR.
C23_CreationTransaction ==
  [][\A p \in Procs :
       (pc[p] = "create" /\ pc'[p] = "reread") =>
         /\ log'[p][Len(log'[p])] = << "createAccount", "near-1.alice.testnet" >>
         /\ DerivedId = "near-1.alice.testnet"
         /\ ~ledger.accounts[DerivedId].exists
         /\ ledger'.accounts[DerivedId] =
              [exists |-> TRUE, balance |-> 10 ^ NominationExp,
               key |-> PublicKeyFromString(mpc.derivedKey), nonce |-> 0]
         /\ ledger'.accounts[ControllerId].nonce = ledger.accounts[ControllerId].nonce + 1
         /\ ledger'.accounts[ControllerId].balance =
              ledger.accounts[ControllerId].balance - 10 ^ NominationExp]_vars

\* the bootstrap has just created the derived account
C23_Witness ==
  \E p \in Procs :
    /\ pc[p] = "reread"
    /\ Has(p, CreateCall)
    /\ ledger.accounts[DerivedId].exists
    /\ ledger.accounts[DerivedId].balance = 10 ^ NominationExp
    /\ ledger.accounts[DerivedId].key = mpcPublicKey[p]

\* ---- C24 ----

\* the relay submissions of invocation p, in the order they were made
RelayCalls(p) == SelectSeq(log[p], LAMBDA e : e[1] = "signAndSendTransaction")

\* C24: the relay callback submits the relay transactions through the
\* controller account in list order, each once, and holds one result per
\* transaction sent, in the same order; when it has returned, every relay
\* transaction has its result; when a submission failed, the transactions
\* after it stay unsent and the invocation has ended with that failure, no
\* signature received and nothing broadcast.
C24_RelayInOrder ==
  \A p \in Procs :
    LET sent == RelayCalls(p) IN
    /\ \A i \in 1..Len(sent) : sent[i] = << "signAndSendTransaction", i >>
    /\ \A i \in 1..Len(results[p]) : results[p][i] = [of |-> i]
    /\ \A j \in 1..Len(relayQueue[p]) : relayQueue[p][j].index = Len(results[p]) + j
    /\ Len(sent) > 0 => relaySigner = ControllerId
    /\ Len(sent) \in { Len(results[p]), Len(results[p]) + 1 }
    /\ pc[p] \in { "checkSig", "attach", "broadcast", "done" } =>
         /\ relayQueue[p] = <<>>
         /\ Len(results[p]) = Len(sent)
         /\ Len(results[p]) >= 1
    /\ Len(sent) = Len(results[p]) + 1 =>
         /\ pc[p] = "failed"
         /\ err[p] = "RelayFailed"
         /\ thrown[p] = "RelayFailed"
         /\ signature[p] = NoResp
         /\ ~Has(p, SendCall)

\* the first of two relay transactions failed and the second was never sent
C24_Witness ==
  \E p \in Procs :
    /\ pc[p] = "failed"
    /\ err[p] = "RelayFailed"
    /\ Len(RelayCalls(p)) = 1
    /\ Len(relayQueue[p]) = 2
    /\ results[p] = <<>>

\* ---- C25 ----

\* ACCOUNT_ID or PRIVATE_KEY is not set
ConfigurationMissing == env.ACCOUNT_ID = "" \/ env.PRIVATE_KEY = <<>>

\* C25: with ACCOUNT_ID or PRIVATE_KEY missing, every invocation of
\* executeNearTransferWithMPC and every run of simpleNearTransfer that was
\* started has failed with the configuration error without a single call: no
\* connection, ledger read, account creation, MPC request or transfer, and
\* the ledger is as it was.
C25_MissingConfigurationStops ==
  ConfigurationMissing =>
    /\ \A p \in Procs :
         /\ log[p] = <<>>
         /\ pc[p] \in { "idle", "failed", "returned" }
         /\ pc[p] = "failed" => err[p] = "ConfigMissing"
         /\ pc[p] = "returned" => outcome[p] = NoOutcome
    /\ simple.log = <<>>
    /\ simple.pc \in { "idle", "failed" }
    /\ simple.pc = "failed" => simple.err = "ConfigMissing"
    /\ ~simple.result.success
    /\ ledger \in InitLedgers

\* PRIVATE_KEY is missing; an invocation of executeNearTransferWithMPC has
\* ended and simpleNearTransfer has just failed
C25_Witness ==
  /\ env.PRIVATE_KEY = <<>>
  /\ \E p \in Procs : pc[p] = "returned"
  /\ simple.pc = "failed"
  /\ simple.err = "ConfigMissing"
  /\ simple.log = <<>>

====
